---- MODULE Spec2Model ----
(***************************************************************************)
(* Model of lib/dns.py of dnsbrute: the authoritative-resolver bootstrap   *)
(* (_query_ns), the wildcard baseline cache (_black_list, _query_pan_dns), *)
(* the wildcard decision (_is_pan_dns) and the consumers of the candidate  *)
(* queue (query_loop, query_a_cname).                                      *)
(*                                                                         *)
(* Domains are sequences of labels: "a.example.com" is <<"a", "example",   *)
(* "com">>.  The coroutines of query_loop share one cooperative event      *)
(* loop: `running` names the coroutine that holds the loop, and it is      *)
(* given up only where the code awaits something that is not ready (a DNS  *)
(* query in flight, a get on an empty queue).  The worker threads of       *)
(* _query_ns and _query_pan_dns are joined by their caller at once, so     *)
(* each is part of the step that starts it.                                *)
(***************************************************************************)
EXTENDS Naturals, Integers, Sequences, FiniteSets, TLC

\* ---------------------------------------------------------------- bounds
NumLoops == 2        \* query_loop coroutines on the event loop
MaxQueue == 2        \* candidates put on the queue before the sentinels
MaxAnswers == 2      \* records in one A answer

\* ------------------------------------------------------- program constants
QUERY_TYPE_A == 1
QUERY_TYPE_NS == 2
QUERY_TYPE_CNAME == 5
_Timeout == 3

\* ------------------------------------------------------------ the network
NoLoop == 0
Loops == 1..NumLoops
Candidates ==
  { <<"www", "example", "com">>, <<"example", "com">>, <<"a", "dev", "example", "com">> }
\* The candidates of a run whose names all lie right under the root domain.
FlatCandidates == { d \in Candidates : Len(d) <= 3 }
PublicSuffixes == { <<"com">> }
IPs == {"198.51.100.9", "198.51.100.50"}
CNames == {"lb.example.net"}
TTLs == {300, 3600}
CNameTTLs == {0, 300}
NSHosts == {"ns1.example.com", "ns2.example.com"}
NSIPs == {"203.0.113.1", "203.0.113.2"}

\* A query that raises: the timeout of _Timeout seconds, NXDOMAIN, or a
\* network failure.  The code never looks at which one it was.
Errors == {"timeout", "nxdomain", "network"}

Range(s) == { s[i] : i \in 1..Len(s) }
SeqsUpTo(S, n) == UNION { [1..k -> S] : k \in 0..n }

\* What resolver.query(name, "A") can give: an error, or a non-empty list of
\* records (the resolver raises when there is no data); `hosts` are the
\* record_.host values in order, `ttl` is records[0].ttl, the only TTL of
\* the list the code reads.
AAnswers ==
  { [err |-> "ok", hosts |-> h, ttl |-> t] : h \in SeqsUpTo(IPs, MaxAnswers) \ {<<>>}, t \in TTLs }
AErrors == { [err |-> e, hosts |-> <<>>, ttl |-> -1] : e \in Errors }
\* What resolver.query(name, "CNAME") can give: an error, or one result with
\* a canonical name and a TTL (0 when upstream gave none).
CNameAnswers == { [err |-> "ok", cname |-> c, ttl |-> t] : c \in CNames, t \in CNameTTLs }
CNameErrors == { [err |-> e, cname |-> "", ttl |-> 0] : e \in Errors }
\* What the NS query of the root domain can give: an error, or the hosts of
\* the NS records (possibly none).
NSAnswers == { [err |-> "ok", hosts |-> H] : H \in SUBSET NSHosts }
NSErrors == { [err |-> e, hosts |-> {}] : e \in Errors }
\* The A lookup of one NS host: an error, or a non-empty set of addresses.
NSAAnswers == { [err |-> "ok", addrs |-> A] : A \in (SUBSET NSIPs) \ {{}} }
NSAErrors == { [err |-> e, addrs |-> {}] : e \in Errors }

\* The answers the nameservers of a run can give (next to the errors).
\* PlainNet: one A answer, one CNAME answer, no NS host or all of them, all
\* at one address.  DataNet: every A and CNAME answer.  BootNet: every set
\* of NS hosts and every address set for an NS host.
PlainNet ==
  [a |-> { [err |-> "ok", hosts |-> <<"198.51.100.9">>, ttl |-> 300] },
   cname |-> { [err |-> "ok", cname |-> "lb.example.net", ttl |-> 300] },
   ns |-> { [err |-> "ok", hosts |-> {}], [err |-> "ok", hosts |-> NSHosts] },
   nsa |-> { [err |-> "ok", addrs |-> {"203.0.113.1"}] }]
DataNet == [PlainNet EXCEPT !.a = AAnswers, !.cname = CNameAnswers]
BootNet == [PlainNet EXCEPT !.ns = NSAnswers, !.nsa = NSAAnswers]

\* Python's None, where a domain, a Record or a resolver is expected.
NoDomain == <<>>
NoResolver == [set |-> FALSE, nameservers |-> {}]
\* A resolver built without the nameserver list: it asks the system's.
DNSResolver_default(nameservers) == [set |-> TRUE, nameservers |-> {}]

\* Line 111: aiodns.DNSResolver(ns_servers).
DNSResolver(nameservers) == [set |-> TRUE, nameservers |-> nameservers]

\* ------------------------------------------------------------------ Record
Record(domain, query_type, ttl, answer) ==
  [domain |-> domain, type |-> query_type, ttl |-> ttl, answer |-> answer]
NoRecord == [domain |-> NoDomain, type |-> 0, ttl |-> 0, answer |-> <<>>]
\* In the place of a Record: an exception was raised instead.
Raised == [domain |-> NoDomain, type |-> -1, ttl |-> 0, answer |-> <<>>]

\* -------------------------------------------------- domain-hierarchy helpers
Suffix(d, k) == SubSeq(d, Len(d) - k + 1, Len(d))

\* _psl.get_public_suffix: the longest public suffix of the domain plus one
\* label; a domain no longer than that is returned whole.
get_public_suffix(d) ==
  LET ks == { k \in 1..Len(d) : Suffix(d, k) \in PublicSuffixes }
      k  == IF ks = {} THEN 1 ELSE CHOOSE m \in ks : \A n \in ks : n <= m
  IN  IF Len(d) <= k + 1 THEN d ELSE Suffix(d, k + 1)

_is_root_domain(domain) == domain = get_public_suffix(domain)

\* _parent_domain going up to the registrable root in one step.
_parent_domain_to_root(domain) == get_public_suffix(domain)

\* Lines 148-159.
_parent_domain(domain) ==
  IF _is_root_domain(domain) THEN domain ELSE Tail(domain)

Parents == { _parent_domain(d) : d \in Candidates }

\* --------------------------------------------------------------- state
VARIABLES
  _resolver,     \* module global: NoResolver, or the resolver and the nameservers it is bound to
  _black_list,   \* module global: dict parent domain -> baseline Record
  queue,         \* the asyncio.Queue of candidates, NoDomain being the sentinel None
  running,       \* the coroutine that holds the event loop, NoLoop when it is free
  pc,            \* position of each query_loop coroutine
  sub_domain,    \* query_loop: the candidate dequeued last (NoDomain before the first)
  record,        \* query_a_cname: the local `record`
  qidx,          \* query_a_cname: position in the for loop over the query types
  result,        \* what query_a_cname returned for sub_domain (NoRecord for None)
  boot,          \* what the _query_ns thread started by each coroutine did
  issued,        \* the queries _resolver.query was given for sub_domain, in order
  errored,       \* the query types whose query raised for sub_domain
  pan_started,   \* how many _query_pan_dns threads were started per parent domain
  pan_seen,      \* what the queries of the synthetic hostname of each parent domain
                 \* gave: the answer, or that there was an error
  checked,       \* whether _is_pan_dns was evaluated for sub_domain
  net            \* the answers the nameservers can give in this run

vars == <<_resolver, _black_list, queue, running, pc, sub_domain, record, qidx,
          result, boot, issued, errored, pan_started, pan_seen, checked, net>>

\* ------------------------------------------------------- wildcard decision
\* _is_pan_dns without its last test: only a CNAME record can match.
_is_pan_dns_cname_only(record_) ==
  LET pan_dns_record == _black_list[_parent_domain(record_.domain)]
      all_in == \A i \in 1..Len(record_.answer) :
                   record_.answer[i] \in Range(pan_dns_record.answer)
  IN  pan_dns_record.answer # <<>> /\ record_.type = QUERY_TYPE_CNAME /\ all_in

\* _is_pan_dns comparing the TTLs only.
_is_pan_dns_ttl_only(record_) ==
  record_.ttl = _black_list[_parent_domain(record_.domain)].ttl

\* _is_pan_dns asking for equal TTLs of a CNAME record as well.
_is_pan_dns_ttl_always(record_) ==
  LET pan_dns_record == _black_list[_parent_domain(record_.domain)]
      all_in == \A i \in 1..Len(record_.answer) :
                   record_.answer[i] \in Range(pan_dns_record.answer)
  IN  pan_dns_record.answer # <<>> /\ all_in /\ record_.ttl = pan_dns_record.ttl

\* _is_pan_dns without the comparison of the TTLs.
_is_pan_dns_no_ttl(record_) ==
  LET pan_dns_record == _black_list[_parent_domain(record_.domain)]
      all_in == \A i \in 1..Len(record_.answer) :
                   record_.answer[i] \in Range(pan_dns_record.answer)
  IN  pan_dns_record.answer # <<>> /\ all_in

\* _is_pan_dns with any() in the place of all().
_is_pan_dns_any(record_) ==
  LET pan_dns_record == _black_list[_parent_domain(record_.domain)]
      any_in == \E i \in 1..Len(record_.answer) :
                   record_.answer[i] \in Range(pan_dns_record.answer)
  IN  IF pan_dns_record.answer = <<>> THEN FALSE
      ELSE IF record_.type = QUERY_TYPE_CNAME /\ any_in THEN TRUE
      ELSE IF any_in /\ record_.ttl = pan_dns_record.ttl THEN TRUE
      ELSE FALSE

\* _is_pan_dns, after the lookup of the baseline of the record's parent.
_is_pan_dns(record_) ==
  LET pan_dns_record == _black_list[_parent_domain(record_.domain)]
      all_in == \A i \in 1..Len(record_.answer) :
                   record_.answer[i] \in Range(pan_dns_record.answer)
  IN  IF pan_dns_record.answer = <<>> THEN FALSE
      ELSE IF record_.type = QUERY_TYPE_CNAME /\ all_in THEN TRUE
      ELSE IF all_in /\ record_.ttl = pan_dns_record.ttl THEN TRUE
      ELSE FALSE

\* ------------------------------------------------------------- bootstrap
\* _query_ns keeping the addresses of one NS host only.
_query_ns_one_host(ns_out, a_out) ==
  IF ns_out.err # "ok" \/ ns_out.hosts = {}
  THEN [status |-> "exit", ns_servers |-> {}]
  ELSE LET good == { h \in ns_out.hosts : a_out[h].err = "ok" }
           last == CHOOSE h \in ns_out.hosts : TRUE
       IN  IF good # ns_out.hosts
           THEN [status |-> "raised", ns_servers |-> {}]
           ELSE [status |-> "ok", ns_servers |-> a_out[last].addrs]

\* ------------------------------------------------------------ _query_ns
\* _query_ns, given what the NS query and the A queries of the NS hosts
\* give.  status "exit": exit(1) was called; "raised": gather re-raised the
\* error of an A query and that ended the thread; "ok": line 111 was
\* reached.  ns_servers is the set built up to there (on "raised", what the
\* A queries that succeeded gave).
_query_ns(ns_out, a_out) ==
  IF ns_out.err # "ok" \/ ns_out.hosts = {}
  THEN [status |-> "exit", ns_servers |-> {}]
  ELSE LET good == { h \in ns_out.hosts : a_out[h].err = "ok" }
           addrs == UNION { a_out[h].addrs : h \in good }
       IN  IF good # ns_out.hosts
           THEN [status |-> "raised", ns_servers |-> addrs]
           ELSE [status |-> "ok", ns_servers |-> addrs]

\* ------------------------------------------------------ baseline populator
\* The two branches of the else clause of _query_pan_dns.  record_ is an
\* object of the answer and never equal to a string of record.answer, so
\* the test of line 206 always passes.
pan_a(rec, out) ==
  IF out.err # "ok" \/ out.hosts = <<>> THEN rec
  ELSE [rec EXCEPT !.answer = rec.answer \o out.hosts, !.ttl = out.ttl]

pan_cname(rec, out) ==
  IF out.err # "ok" THEN rec
  ELSE IF out.cname \notin Range(rec.answer)
       THEN [rec EXCEPT !.answer = Append(rec.answer, out.cname),
                        !.ttl = IF out.ttl # 0 THEN out.ttl ELSE rec.ttl]
       ELSE rec

PanQueryTypes == <<"A", "CNAME">>

\* _query_pan_dns storing a Record only when the synthetic hostname had an
\* answer.
_query_pan_dns_nonempty(domain, a_out, c_out) ==
  LET rec == pan_cname(pan_a(Record(domain, QUERY_TYPE_A, -1, <<>>), a_out), c_out)
  IN  IF rec.answer = <<>> THEN NoRecord ELSE rec

\* _query_pan_dns, given what the A and the CNAME query of the synthetic
\* hostname give: the Record stored under the domain.
_query_pan_dns(domain, a_out, c_out) ==
  LET step(rec, qt) == IF qt = "A" THEN pan_a(rec, a_out) ELSE pan_cname(rec, c_out)
      r0 == Record(domain, QUERY_TYPE_A, -1, <<>>)
      r1 == step(r0, PanQueryTypes[1])
  IN  step(r1, PanQueryTypes[2])

\* ------------------------------------------------------------ query_a_cname
\* The for loop of query_a_cname with its two types the other way round.
QueryTypes_cname_first == <<"CNAME", "A">>

\* The tuple the for loop of line 130 goes through.
QueryTypes == <<"A", "CNAME">>

\* query_a_cname letting the error of a query through.
query_result_raises(domain, query_type, out) ==
  IF out.err # "ok" THEN Raised
  ELSE IF query_type = "CNAME"
       THEN Record(domain, QUERY_TYPE_CNAME, IF out.ttl # 0 THEN out.ttl ELSE -1, <<out.cname>>)
  ELSE Record(domain, QUERY_TYPE_A, out.ttl, out.hosts)

\* The try/except/else of query_a_cname for one query type: the value of
\* `record` after it.  Raised would be an exception leaving the try.
query_result(domain, query_type, out) ==
  IF out.err # "ok" THEN NoRecord
  ELSE IF query_type = "CNAME"
       THEN Record(domain, QUERY_TYPE_CNAME, IF out.ttl # 0 THEN out.ttl ELSE -1, <<out.cname>>)
  ELSE IF query_type = "A" /\ out.hosts # <<>>
       THEN Record(domain, QUERY_TYPE_A, out.ttl, out.hosts)
  ELSE NoRecord

\* ------------------------------------------------------------------ Init
\* A coroutine whose _query_ns thread looked nothing up: none was started
\* yet, or the resolver was there already.
NoBoot(status) ==
  [status |-> status, ns_servers |-> {}, ns_hosts |-> {}, answers |-> [h \in NSHosts |-> {}]]

\* No _query_pan_dns thread has queried the synthetic hostname of the parent.
NotQueried ==
  [queried |-> FALSE, a |-> [err |-> "none", hosts |-> <<>>, ttl |-> -1],
   cname |-> [err |-> "none", cname |-> "", ttl |-> 0]]

Sentinels(k) == [i \in 1..k |-> NoDomain]

\* The state after import: no resolver, an empty cache.  The coroutines of
\* `started` are scheduled, the queue holds up to MaxQueue candidates of
\* `cands` and then one sentinel for each element of a number in `ks`, and
\* the nameservers answer as `network` says.
InitWith(started, cands, ks, network) ==
  /\ _resolver = NoResolver
  /\ _black_list = [p \in Parents |-> NoRecord]
  /\ queue \in { c \o Sentinels(k) : c \in SeqsUpTo(cands, MaxQueue), k \in ks }
  /\ running = NoLoop
  /\ pc = [l \in Loops |-> IF l \in started THEN "start" ELSE "off"]
  /\ sub_domain = [l \in Loops |-> NoDomain]
  /\ record = [l \in Loops |-> NoRecord]
  /\ qidx = [l \in Loops |-> 1]
  /\ result = [l \in Loops |-> NoRecord]
  /\ boot = [l \in Loops |-> NoBoot("none")]
  /\ issued = [l \in Loops |-> <<>>]
  /\ errored = [l \in Loops |-> {}]
  /\ pan_started = [p \in Parents |-> 0]
  /\ pan_seen = [p \in Parents |-> NotQueried]
  /\ checked = [l \in Loops |-> FALSE]
  /\ net = network

\* One consumer, every A and CNAME answer; the sentinel may not have been
\* put yet.
Init == InitWith({1}, FlatCandidates, 0..1, DataNet)
\* Every consumer, candidates of two parent domains, at least one sentinel.
InitConc == InitWith(Loops, Candidates, 1..NumLoops, PlainNet)
\* Every consumer, at least one sentinel.
InitFair == InitWith(Loops, FlatCandidates, 1..NumLoops, PlainNet)
\* One consumer, every answer to the lookups of the bootstrap.
InitBoot == InitWith({1}, FlatCandidates, 0..1, BootNet)

\* The coroutine l can take a step: it holds the event loop, or the loop is
\* free and picks it.
CanRun(l) == running \in {NoLoop, l}

\* `parent_domain not in _black_list`
InBlackList(p) == _black_list[p] # NoRecord

\* --------------------------------------------------------------- query_loop
\* Lines 60-63: the bootstrap, when no resolver is set yet.  The thread is
\* joined before the coroutine goes on, whatever happened in it: exit(1)
\* raises SystemExit in the worker thread, which ends that thread only, and
\* so does the error of an A query that gather re-raises.
Bootstrap(l) ==
  /\ pc[l] = "start"
  /\ CanRun(l)
  /\ IF _resolver.set
     THEN /\ boot' = [boot EXCEPT ![l] = NoBoot("skipped")]
          /\ UNCHANGED _resolver
     ELSE \E ns_out \in NSErrors \cup net.ns : \E a_out \in [NSHosts -> NSAErrors \cup net.nsa] :
            LET r == _query_ns(ns_out, a_out)
            IN  /\ boot' = [boot EXCEPT ![l] =
                              [status |-> r.status, ns_servers |-> r.ns_servers,
                               ns_hosts |-> ns_out.hosts,
                               answers |-> [h \in NSHosts |->
                                             IF h \in ns_out.hosts THEN a_out[h].addrs ELSE {}]]]
                /\ _resolver' = IF r.status = "ok" THEN DNSResolver(r.ns_servers)
                                ELSE _resolver
  /\ pc' = [pc EXCEPT ![l] = "get"]
  /\ running' = l
  /\ UNCHANGED <<_black_list, queue, sub_domain, record, qidx, result, issued,
                 errored, pan_started, pan_seen, checked, net>>

\* What the last iteration left behind is dead once queue.get() is called
\* again.
Forget(l) ==
  /\ record' = [record EXCEPT ![l] = NoRecord]
  /\ qidx' = [qidx EXCEPT ![l] = 1]
  /\ result' = [result EXCEPT ![l] = NoRecord]
  /\ issued' = [issued EXCEPT ![l] = <<>>]
  /\ errored' = [errored EXCEPT ![l] = {}]
  /\ checked' = [checked EXCEPT ![l] = FALSE]

\* query_loop going round again on the sentinel.
Get_ignores_sentinel(l) ==
  /\ pc[l] = "get"
  /\ CanRun(l)
  /\ queue # <<>>
  /\ queue' = Tail(queue)
  /\ sub_domain' = [sub_domain EXCEPT ![l] = Head(queue)]
  /\ pc' = [pc EXCEPT ![l] = IF Head(queue) = NoDomain THEN "get" ELSE "baseline"]
  /\ running' = l
  /\ Forget(l)
  /\ UNCHANGED <<_resolver, _black_list, boot, pan_started, pan_seen, net>>

\* Lines 67-69: queue.get().  With an item at hand the coroutine goes on
\* without giving up the event loop; the sentinel makes it return.
Get(l) ==
  /\ pc[l] = "get"
  /\ CanRun(l)
  /\ queue # <<>>
  /\ queue' = Tail(queue)
  /\ sub_domain' = [sub_domain EXCEPT ![l] = Head(queue)]
  /\ IF Head(queue) = NoDomain
     THEN /\ pc' = [pc EXCEPT ![l] = "returned"]
          /\ running' = NoLoop
     ELSE /\ pc' = [pc EXCEPT ![l] = "baseline"]
          /\ running' = l
  /\ Forget(l)
  /\ UNCHANGED <<_resolver, _black_list, boot, pan_started, pan_seen, net>>

\* Line 67 on an empty queue: the coroutine waits and the event loop is free.
GetBlocked(l) ==
  /\ pc[l] = "get"
  /\ running = l
  /\ queue = <<>>
  /\ running' = NoLoop
  /\ sub_domain' = [sub_domain EXCEPT ![l] = NoDomain]
  /\ Forget(l)
  /\ UNCHANGED <<_resolver, _black_list, queue, pc, boot, pan_started, pan_seen, net>>

\* ------------------------------------------------------------ query_a_cname
\* Lines 122-129: the baseline of the parent, populated by a joined thread
\* when the cache has no entry.  With no resolver the thread dies on
\* _resolver.nameservers (line 185) and stores nothing.
Baseline(l) ==
  /\ pc[l] = "baseline"
  /\ CanRun(l)
  /\ LET parent_domain == _parent_domain(sub_domain[l])
     IN  IF InBlackList(parent_domain)
         THEN UNCHANGED <<_black_list, pan_started, pan_seen>>
         ELSE /\ pan_started' = [pan_started EXCEPT ![parent_domain] = @ + 1]
              /\ IF _resolver.set
                 THEN \E a_out \in AErrors \cup net.a : \E c_out \in CNameErrors \cup net.cname :
                        /\ _black_list' = [_black_list EXCEPT ![parent_domain] =
                                             _query_pan_dns(parent_domain, a_out, c_out)]
                        /\ pan_seen' = [pan_seen EXCEPT ![parent_domain] =
                                          [queried |-> TRUE,
                                           a |-> [a_out EXCEPT !.err =
                                                    IF @ = "ok" THEN "ok" ELSE "error"],
                                           cname |-> [c_out EXCEPT !.err =
                                                        IF @ = "ok" THEN "ok" ELSE "error"]]]
                 ELSE UNCHANGED <<_black_list, pan_seen>>
  /\ record' = [record EXCEPT ![l] = NoRecord]
  /\ qidx' = [qidx EXCEPT ![l] = 1]
  /\ pc' = [pc EXCEPT ![l] = "query"]
  /\ running' = l
  /\ UNCHANGED <<_resolver, queue, sub_domain, result, boot, issued, errored,
                 checked, net>>

\* The for loop asking once more after a query that gave no record.
AfterType_retry(l, rec) ==
  IF rec = NoRecord /\ Len(issued[l]) < 2 * qidx[l]
  THEN /\ pc' = [pc EXCEPT ![l] = "query"]
       /\ UNCHANGED qidx
  ELSE IF rec # NoRecord \/ qidx[l] = Len(QueryTypes)
  THEN /\ pc' = [pc EXCEPT ![l] = "filter"]
       /\ UNCHANGED qidx
  ELSE /\ pc' = [pc EXCEPT ![l] = "query"]
       /\ qidx' = [qidx EXCEPT ![l] = @ + 1]

\* The for loop goes to its next query type, or ends.
AfterType(l, rec) ==
  IF rec # NoRecord \/ qidx[l] = Len(QueryTypes)
  THEN /\ pc' = [pc EXCEPT ![l] = "filter"]
       /\ UNCHANGED qidx
  ELSE /\ pc' = [pc EXCEPT ![l] = "query"]
       /\ qidx' = [qidx EXCEPT ![l] = @ + 1]

\* Line 133: the query is handed to the resolver and the coroutine waits for
\* the answer.  With no resolver the call raises at once, the bare except
\* swallows it and the loop goes on without a query.
Query(l) ==
  /\ pc[l] = "query"
  /\ CanRun(l)
  /\ IF _resolver.set
     THEN /\ issued' = [issued EXCEPT ![l] = Append(@, QueryTypes[qidx[l]])]
          /\ pc' = [pc EXCEPT ![l] = "await"]
          /\ running' = NoLoop
          /\ UNCHANGED qidx
     ELSE /\ AfterType(l, NoRecord)
          /\ running' = l
          /\ UNCHANGED issued
  /\ UNCHANGED <<_resolver, _black_list, queue, sub_domain, record, result, boot,
                 errored, pan_started, pan_seen, checked, net>>

\* Lines 133-142: the answer, the error or the timeout of the query in
\* flight arrives and the coroutine is resumed.
Answer(l) ==
  /\ pc[l] = "await"
  /\ running = NoLoop
  /\ LET query_type == QueryTypes[qidx[l]]
     IN  \E out \in (IF query_type = "A" THEN AErrors \cup net.a
                      ELSE CNameErrors \cup net.cname) :
           LET rec == query_result(sub_domain[l], query_type, out)
           IN  /\ errored' = [errored EXCEPT ![l] =
                                IF out.err # "ok" THEN @ \cup {query_type} ELSE @]
               /\ IF rec = Raised
                  THEN /\ pc' = [pc EXCEPT ![l] = "crashed"]
                       /\ running' = NoLoop
                       /\ UNCHANGED <<record, qidx>>
                  ELSE /\ record' = [record EXCEPT ![l] = rec]
                       /\ AfterType(l, rec)
                       /\ running' = l
  /\ UNCHANGED <<_resolver, _black_list, queue, sub_domain, result, boot, issued,
                 pan_started, pan_seen, checked, net>>

\* Lines 144-145 and 71-73: the wildcard check of a record that was built,
\* and the return to query_loop, which logs a record it is given.  The
\* lookup of line 223 raises KeyError when the cache has no entry for the
\* parent, and nothing catches it.
Filter(l) ==
  /\ pc[l] = "filter"
  /\ CanRun(l)
  /\ IF record[l] # NoRecord /\ ~InBlackList(_parent_domain(record[l].domain))
     THEN /\ pc' = [pc EXCEPT ![l] = "crashed"]
          /\ running' = NoLoop
          /\ UNCHANGED <<result, checked>>
     ELSE /\ checked' = [checked EXCEPT ![l] = record[l] # NoRecord]
          /\ result' = [result EXCEPT ![l] =
                          IF record[l] = NoRecord THEN NoRecord
                          ELSE IF _is_pan_dns(record[l]) THEN NoRecord
                          ELSE record[l]]
          /\ pc' = [pc EXCEPT ![l] = "get"]
          /\ running' = l
  /\ UNCHANGED <<_resolver, _black_list, queue, sub_domain, record, qidx, boot,
                 issued, errored, pan_started, pan_seen, net>>

Step(l) ==
  \/ Bootstrap(l)
  \/ Get(l)
  \/ GetBlocked(l)
  \/ Baseline(l)
  \/ Query(l)
  \/ Answer(l)
  \/ Filter(l)

Next == \E l \in Loops : Step(l)

\* The wildcard filter on every answer, with one consumer.
Spec == Init /\ [][Next]_vars

\* The consumers interleaved on the event loop.
ConcSpec == InitConc /\ [][Next]_vars

\* The bootstrap on every outcome of its lookups.
BootSpec == InitBoot /\ [][Next]_vars

\* Every query ends within its timeout and the event loop resumes a
\* coroutine whose awaited result is there.
FairSpec == InitFair /\ [][Next]_vars /\ \A l \in Loops : WF_vars(Step(l))

\* ------------------------------------------------------------ properties
\* The resolution of sub_domain[l] has just ended: query_a_cname returned
\* to query_loop, which has not called queue.get() again.
Done(l) == pc[l] = "get" /\ running = l /\ sub_domain[l] # NoDomain

Baseline_of(domain) == _black_list[_parent_domain(domain)]

\* The baseline a zone gives that answers the synthetic hostname with one
\* A record and no CNAME: that IP, that TTL.
OneIPBaseline(b) == Len(b.answer) = 1 /\ b.answer[1] \in IPs

\* C1: with a baseline of one IP and its TTL, a candidate whose A answer is
\* that IP with that TTL is suppressed (None is returned), and a candidate
\* whose A answer is another IP is returned as its Record, whatever its TTL.
C1_WildcardScenario ==
  \A l \in Loops :
    (/\ Done(l)
     /\ record[l].type = QUERY_TYPE_A
     /\ Len(record[l].answer) = 1
     /\ OneIPBaseline(Baseline_of(sub_domain[l])))
    => LET b == Baseline_of(sub_domain[l])
       IN  /\ (record[l].answer = b.answer /\ record[l].ttl = b.ttl) => result[l] = NoRecord
           /\ record[l].answer[1] # b.answer[1] => result[l] = record[l]

C1_Witness ==
  \E l \in Loops :
    /\ Done(l)
    /\ record[l].type = QUERY_TYPE_A
    /\ OneIPBaseline(Baseline_of(sub_domain[l]))
    /\ record[l].answer = Baseline_of(sub_domain[l]).answer
    /\ record[l].ttl = Baseline_of(sub_domain[l]).ttl
    /\ result[l] = NoRecord

\* C2: the baseline population of a parent domain (the _query_pan_dns
\* thread) is started at most once in a run.
C2_PopulatedAtMostOnce == \A p \in Parents : pan_started[p] <= 1

\* C3: once the bootstrap has called exit(1), because the NS query failed or
\* gave no record, nothing is taken from the queue any more.
C3_FatalBootstrapStops ==
  [][(\E l \in Loops : boot[l].status = "exit") => queue' = queue]_vars

\* C4 as stated: for one candidate an A query is never issued unless the
\* CNAME query was issued before it, and never after a CNAME answer.
C4_CnameBeforeA ==
  \A l \in Loops : \A i \in 1..Len(issued[l]) :
    issued[l][i] = "A" =>
      /\ \E j \in 1..(i - 1) : issued[l][j] = "CNAME"
      /\ record[l].type # QUERY_TYPE_CNAME

\* C4 as amended: for one candidate a CNAME query is never issued unless the
\* A query was issued before it, and when the A query gave an answer no
\* CNAME query is issued.
C4_ABeforeCname ==
  \A l \in Loops :
    /\ \A i \in 1..Len(issued[l]) :
         issued[l][i] = "CNAME" => \E j \in 1..(i - 1) : issued[l][j] = "A"
    /\ record[l].type = QUERY_TYPE_A => issued[l] = <<"A">>

C4_Witness ==
  \E l \in Loops :
    /\ Done(l)
    /\ record[l].type = QUERY_TYPE_CNAME
    /\ issued[l] = <<"A", "CNAME">>

\* C5: a coroutine that has taken a candidate from the queue finds the
\* module resolver set.
C5_ResolverBeforeCandidates ==
  \A l \in Loops : pc[l] \in {"baseline", "query", "await", "filter"} => _resolver.set

\* C6: a query of a candidate is in flight, or its record is about to be
\* checked, only when the cache holds the baseline of its parent; the
\* lookup of _is_pan_dns never fails.
C6_BaselineBeforeQuery ==
  \A l \in Loops :
    /\ pc[l] # "crashed"
    /\ issued[l] # <<>> => InBlackList(_parent_domain(sub_domain[l]))
    /\ record[l] # NoRecord => InBlackList(_parent_domain(record[l].domain))

C6_Witness ==
  \E l \in Loops :
    /\ Done(l)
    /\ record[l] # NoRecord
    /\ pan_started[_parent_domain(sub_domain[l])] = 1

\* C7: when the NS query gave hosts and the A query of one of them failed,
\* the resolver is set all the same, bound to the addresses of the hosts
\* whose A query succeeded.
C7_PartialBootstrap ==
  \A l \in Loops :
    (boot[l].status = "raised" /\ \A k \in Loops : boot[k].status # "ok")
    => _resolver = DNSResolver(boot[l].ns_servers)

\* C8: a coroutine that has taken the sentinel has returned for good, and
\* with every query ending the queue is drained in the end: a coroutine has
\* returned and every other one has returned too or waits on the empty
\* queue, no resolution being left unfinished.
C8_SentinelStops ==
  /\ [][\A l \in Loops : pc[l] = "returned" => pc'[l] = "returned"]_vars
  /\ <>(/\ queue = <<>>
        /\ \E l \in Loops : pc[l] = "returned"
        /\ \A l \in Loops : pc[l] \in {"returned", "get"})

C8_Witness ==
  \E l \in Loops :
    /\ pc[l] = "returned"
    /\ queue = <<>>
    /\ \E p \in Parents : InBlackList(p)

\* C9: the error of a query ends nothing: after an error of the A query the
\* CNAME query is issued, with no record of either kind None is returned,
\* and the coroutine is back at queue.get().
C9_ErrorsNotFatal ==
  \A l \in Loops :
    errored[l] # {} =>
      /\ pc[l] \in {"query", "await", "filter", "get"}
      /\ ("A" \in errored[l] /\ pc[l] \in {"filter", "get"}) => issued[l] = <<"A", "CNAME">>
      /\ (Done(l) /\ record[l] = NoRecord) => result[l] = NoRecord

C9_Witness ==
  \E l \in Loops :
    /\ Done(l)
    /\ errored[l] = {"A", "CNAME"}
    /\ result[l] = NoRecord

\* C10: a record whose parent has a baseline with an empty answer is
\* returned, not suppressed.
C10_EmptyBaselineReports ==
  \A l \in Loops :
    (/\ Done(l)
     /\ record[l] # NoRecord
     /\ Baseline_of(sub_domain[l]).answer = <<>>)
    => result[l] = record[l]

C10_Witness ==
  \E l \in Loops :
    /\ Done(l)
    /\ record[l].type = QUERY_TYPE_CNAME
    /\ record[l].ttl = -1
    /\ Baseline_of(sub_domain[l]).answer = <<>>
    /\ result[l] = record[l]

\* C11: a CNAME record whose one answer is in the non-empty baseline answer
\* of its parent is suppressed by the wildcard check, whatever the TTL of
\* the record and of the baseline.
C11_CnameMatchIgnoresTtl ==
  \A l \in Loops :
    (/\ Done(l)
     /\ record[l].type = QUERY_TYPE_CNAME
     /\ Len(record[l].answer) = 1
     /\ record[l].answer[1] \in Range(Baseline_of(sub_domain[l]).answer))
    => (checked[l] /\ result[l] = NoRecord)

C11_Witness ==
  \E l \in Loops :
    /\ Done(l)
    /\ record[l].type = QUERY_TYPE_CNAME
    /\ record[l].answer[1] \in Range(Baseline_of(sub_domain[l]).answer)
    /\ record[l].ttl # Baseline_of(sub_domain[l]).ttl
    /\ checked[l]
    /\ result[l] = NoRecord

\* C12: an A record all of whose answers are in the baseline answer of its
\* parent but whose TTL is not the baseline TTL is not suppressed: it is
\* returned.
C12_TtlMismatchReports ==
  \A l \in Loops :
    (/\ Done(l)
     /\ record[l].type = QUERY_TYPE_A
     /\ Range(record[l].answer) # {}
     /\ Range(record[l].answer) \subseteq Range(Baseline_of(sub_domain[l]).answer)
     /\ record[l].ttl # Baseline_of(sub_domain[l]).ttl)
    => (checked[l] /\ result[l] = record[l])

C12_Witness ==
  \E l \in Loops :
    /\ Done(l)
    /\ record[l].type = QUERY_TYPE_A
    /\ Range(record[l].answer) \subseteq Range(Baseline_of(sub_domain[l]).answer)
    /\ record[l].ttl # Baseline_of(sub_domain[l]).ttl
    /\ Baseline_of(sub_domain[l]).ttl \in TTLs
    /\ result[l] = record[l]

\* C19: an A record with several addresses of which some are in the
\* baseline answer of its parent and some are not is returned, also when its
\* TTL is the baseline TTL.
C19_PartialOverlapReports ==
  \A l \in Loops :
    (/\ Done(l)
     /\ record[l].type = QUERY_TYPE_A
     /\ Range(record[l].answer) \cap Range(Baseline_of(sub_domain[l]).answer) # {}
     /\ Range(record[l].answer) \ Range(Baseline_of(sub_domain[l]).answer) # {})
    => (checked[l] /\ result[l] = record[l])

C19_Witness ==
  \E l \in Loops :
    /\ Done(l)
    /\ record[l].type = QUERY_TYPE_A
    /\ Range(record[l].answer) \cap Range(Baseline_of(sub_domain[l]).answer) # {}
    /\ Range(record[l].answer) \ Range(Baseline_of(sub_domain[l]).answer) # {}
    /\ record[l].ttl = Baseline_of(sub_domain[l]).ttl
    /\ result[l] = record[l]

\* C13: when the NS query gave hosts and the A query of every one of them
\* gave addresses, the resolver is bound to the union of these addresses, no
\* more and no less.
C13_ResolverIsUnion ==
  \A l \in Loops :
    (/\ boot[l].ns_hosts # {}
     /\ \A h \in boot[l].ns_hosts : boot[l].answers[h] # {})
    => /\ boot[l].status = "ok"
       /\ _resolver = [set |-> TRUE,
                       nameservers |-> UNION { boot[l].answers[h] : h \in boot[l].ns_hosts }]

C13_Witness ==
  \E l \in Loops :
    /\ boot[l].ns_hosts = NSHosts
    /\ \A h \in NSHosts : Cardinality(boot[l].answers[h]) = 1
    /\ \E h1, h2 \in NSHosts : boot[l].answers[h1] # boot[l].answers[h2]
    /\ _resolver.nameservers = NSIPs

\* C14: the parent of the registrable root is the root itself, the parent
\* of any other domain is the domain less its leftmost label: the baseline a
\* candidate is checked against is stored under that name, so under
\* dev.example.com for a.dev.example.com.
C14_ParentDomain ==
  \A l \in Loops :
    (pc[l] \in {"query", "await", "filter"} /\ _resolver.set) =>
      LET d == sub_domain[l]
          parent == IF d = <<"example", "com">> THEN d ELSE SubSeq(d, 2, Len(d))
      IN  /\ parent \in DOMAIN _black_list
          /\ _black_list[parent].domain = parent

C14_Witness ==
  \E l \in Loops :
    /\ pc[l] = "filter"
    /\ sub_domain[l] = <<"a", "dev", "example", "com">>
    /\ _black_list[<<"dev", "example", "com">>].domain = <<"dev", "example", "com">>
    /\ _black_list[<<"example", "com">>].domain = <<"example", "com">>

\* C15: once a baseline population was started for a parent domain, the
\* cache has a Record under that parent, and when both queries of the
\* synthetic hostname failed the Record has an empty answer and TTL -1.
C15_BaselineAlwaysStored ==
  \A p \in Parents :
    pan_started[p] >= 1 =>
      /\ InBlackList(p)
      /\ _black_list[p].domain = p
      /\ (pan_seen[p].a.err # "ok" /\ pan_seen[p].cname.err # "ok")
           => (_black_list[p].answer = <<>> /\ _black_list[p].ttl = -1)

\* C16: a candidate whose A answer has the addresses and the TTL that the A
\* query of the synthetic hostname of its parent gave is suppressed, whatever
\* the CNAME query of the synthetic hostname gave.
C16_SameAnswerSuppressed ==
  \A l \in Loops :
    (/\ Done(l)
     /\ record[l].type = QUERY_TYPE_A
     /\ pan_seen[_parent_domain(sub_domain[l])].a.err = "ok"
     /\ Range(record[l].answer) = Range(pan_seen[_parent_domain(sub_domain[l])].a.hosts)
     /\ record[l].ttl = pan_seen[_parent_domain(sub_domain[l])].a.ttl)
    => result[l] = NoRecord

\* C17: for one candidate each of the A and the CNAME query is issued at
\* most once and nothing else is asked; the wildcard check is made only for
\* a record that was built; and the pass ends with no record and None, with
\* a record that the check suppressed and None, or with the record returned.
C17_SinglePass ==
  \A l \in Loops :
    /\ \A i, j \in 1..Len(issued[l]) :
         /\ issued[l][i] \in {"A", "CNAME"}
         /\ i # j => issued[l][i] # issued[l][j]
    /\ checked[l] => record[l] # NoRecord
    /\ pc[l] # "crashed"
    /\ Done(l) =>
         \/ record[l] = NoRecord /\ ~checked[l] /\ result[l] = NoRecord
         \/ record[l] # NoRecord /\ checked[l] /\ result[l] = NoRecord
         \/ record[l] # NoRecord /\ checked[l] /\ result[l] = record[l]

C17_Witness ==
  \E l \in Loops :
    /\ Done(l)
    /\ issued[l] = <<"A", "CNAME">>
    /\ errored[l] = {"A"}
    /\ checked[l]
    /\ result[l] = NoRecord

\* C18: no string is twice in the answer of a baseline Record of the cache,
\* also when the A answer of the synthetic hostname has the same address
\* more than once.
C18_BaselineNoDuplicates ==
  \A p \in Parents :
    \A i, j \in 1..Len(_black_list[p].answer) :
      i # j => _black_list[p].answer[i] # _black_list[p].answer[j]

\* C20: a Record that query_loop reports has type A or CNAME and an answer,
\* and came from a query handed to the one resolver, which is bound to the
\* addresses that a bootstrap got for the NS hosts; as long as no resolver
\* was built, no query is issued, no record is built and every candidate
\* resolves to None.
C20_ReportedByBootResolver ==
  \A l \in Loops :
    /\ (Done(l) /\ result[l] # NoRecord) =>
         /\ result[l].type \in {QUERY_TYPE_A, QUERY_TYPE_CNAME}
         /\ result[l].answer # <<>>
         /\ issued[l] # <<>>
         /\ _resolver.set
         /\ \E k \in Loops :
              /\ boot[k].status = "ok"
              /\ _resolver.nameservers =
                   UNION { boot[k].answers[h] : h \in boot[k].ns_hosts }
              /\ _resolver.nameservers # {}
    /\ (Done(l) /\ ~_resolver.set) =>
         (issued[l] = <<>> /\ record[l] = NoRecord /\ result[l] = NoRecord)

C20_Witness ==
  \E l \in Loops :
    /\ Done(l)
    /\ result[l] # NoRecord
    /\ result[l] = record[l]
    /\ _resolver.nameservers = NSIPs
    /\ boot[l].status = "ok"

====
